---- MODULE Spec2Model ----
(***************************************************************************)
(* A state-machine model of TfRLTrainer                                    *)
(* (rllib/core/rl_trainer/tf/tf_rl_trainer.py).                            *)
(*                                                                         *)
(* The trainer is single threaded: one public method runs at a time.       *)
(* build, add_module, remove_module and configure_optimizers are one       *)
(* action each.  update is followed statement by statement (pc) so that    *)
(* the order of the calls of _do_update_fn and the state of the gradient   *)
(* tape at each call are part of the state; no other method can start      *)
(* while pc is not "idle".                                                 *)
(*                                                                         *)
(* Every call the trainer makes is appended to `calls` together with the   *)
(* state of the tape and the depth of strategy scopes at the call.         *)
(*                                                                         *)
(* Abstractions: a module has one trainable variable, whose ParamRef is    *)
(* the module id; the value of a variable is the number of gradient        *)
(* applications it received; a learning rate is an integer in units of     *)
(* 1e-4; a tensor is a small integer.                                      *)
(***************************************************************************)
EXTENDS Integers, Sequences, FiniteSets, TLC

\* ---------------------------------------------------------------- bounds
MaxModules == 3          \* module ids are 1..MaxModules
MaxOps == 4              \* public method calls after build

\* ------------------------------------------------------- program constants
DefaultLr == 10          \* 1e-3, in units of 1e-4

ModuleIds == 1..MaxModules
LossValues == {1, 2}      \* the values of a loss tensor
TOTAL_LOSS_KEY == "total_loss"

VARIABLES
    \* constructor arguments
    distributed, in_test, enable_tf_function, optimizer_config, module_kwargs,
    \* trainer state
    built,              \* build() has run
    strategy,           \* self.strategy: "none" or "MultiWorkerMirroredStrategy"
    scopeDepth,         \* strategy scopes currently entered
    module,             \* keys of self._module, in insertion order
    params,             \* self._params: ParamRef -> value of the variable
    optim_to_param,     \* self._optim_to_param: optimizer id -> seq of ParamRef
    optimizers,         \* optimizer id -> the optimizer object
    nextOptim,          \* id of the next optimizer object created
    update_fn,          \* self._update_fn
    modVersion,         \* number of changes of the module set so far
    \* the method call in progress, or the last one
    pc, lastOp, outcome, calls, batch, converted, tape,
    fwd_out, loss, gradients, hookReturned, appliedArg, applied,
    update_outs, results, pairs, nOps

cfgVars == <<distributed, in_test, enable_tf_function, optimizer_config, module_kwargs>>
regVars == <<module, params, optim_to_param, optimizers, modVersion>>
trainerVars == <<built, strategy, scopeDepth, regVars, nextOptim, update_fn>>
localVars == <<fwd_out, loss, gradients, hookReturned, appliedArg, applied, update_outs>>
callVars == <<pc, lastOp, outcome, calls, batch, converted, tape, localVars, results, pairs, nOps>>
vars == <<cfgVars, trainerVars, callVars>>

\* ------------------------------------------------------------- helpers
Range(s) == {s[i] : i \in DOMAIN s}

Null == [k \in {} |-> 0]           \* an empty dict; also "no value yet"

RECURSIVE Sum(_, _)
Sum(f, S) == IF S = {} THEN 0
             ELSE LET x == CHOOSE y \in S : TRUE IN f[x] + Sum(f, S \ {x})

\* np.mean over the flattened gradients (integer mean; 0 stands for nan).
Mean(f) == IF DOMAIN f = {} THEN 0 ELSE Sum(f, DOMAIN f) \div Cardinality(DOMAIN f)

\* dict.get(key, default)
Get(d, key, default) == IF key \in DOMAIN d THEN d[key] ELSE default

\* One entry of the call log.
Call(fn) == [fn |-> fn, tape |-> tape, scope |-> scopeDepth]
CallIn(fn, depth) == [fn |-> fn, tape |-> "none", scope |-> depth]

\* module.trainable_variables / get_parameters / get_param_ref
get_parameters(key) == <<key>>

\* ------------------------------------------------------ tf.function wrappers
\* tf.function(self._do_update_fn): a new wrapper that holds no trace yet.  A
\* trace, once made, fixes the module keys and the optimizer/parameter lists
\* that the Python body read while it was traced.
TfFunction == [traced |-> TRUE, made |-> FALSE, version |-> 0, keys |-> <<>>, plan |-> Null]

\* self._do_update_fn itself: the body runs eagerly on every call.
DoUpdateFn == [traced |-> FALSE, made |-> FALSE, version |-> 0, keys |-> <<>>, plan |-> Null]

\* __init__, lines 104-108.
InitUpdateFn(enable) == IF enable THEN TfFunction ELSE DoUpdateFn

\* Faulty variant: the wrapper made in __init__ is kept.
Rewrap_Keep(enable, fn) == fn

\* add_module / remove_module, lines 236-237 and 246-247.
Rewrap(enable, fn) == IF enable THEN TfFunction ELSE fn

\* ------------------------------------------------------------ optimizers
Adam(id, lr) == [id |-> id, cls |-> "Adam", lr |-> lr, iterations |-> 0]

\* Faulty variant: one optimizer is made and given to every module.
configure_optimizers_Shared(keys, config, firstId) ==
    LET lr == Get(config, "lr", DefaultLr)
    IN  [i \in 1..Len(keys) |->
            [params |-> get_parameters(keys[i]), optimizer |-> Adam(firstId, lr)]]

\* configure_optimizers: one (parameters, optimizer) pair per module key, each
\* with an optimizer object of its own (ids firstId, firstId + 1, ...).
configure_optimizers(keys, config, firstId) ==
    LET lr == Get(config, "lr", DefaultLr)
    IN  [i \in 1..Len(keys) |->
            [params |-> get_parameters(keys[i]), optimizer |-> Adam(firstId + i - 1, lr)]]

\* get_optimizer_obj: optimizer_cls(learning_rate=lr)
get_optimizer_obj(config, optimizer_cls, id) ==
    [id |-> id, cls |-> optimizer_cls, lr |-> Get(config, "lr", DefaultLr), iterations |-> 0]

\* --------------------------------------------- base class (RLTrainer) parts
\* Registration of (parameters, optimizer) pairs in the trainer's bookkeeping:
\* self._optim_to_param[optimizer] = [refs], self._params[ref] = param.
PairOf(ps, o) == ps[CHOOSE i \in DOMAIN ps : ps[i].optimizer.id = o]

RegOptimToParam(o2p, ps) ==
    [o \in DOMAIN o2p \cup {ps[i].optimizer.id : i \in DOMAIN ps} |->
        IF o \in {ps[i].optimizer.id : i \in DOMAIN ps} THEN PairOf(ps, o).params ELSE o2p[o]]

RegOptimizers(os, ps) ==
    [o \in DOMAIN os \cup {ps[i].optimizer.id : i \in DOMAIN ps} |->
        IF o \in {ps[i].optimizer.id : i \in DOMAIN ps} THEN PairOf(ps, o).optimizer ELSE os[o]]

RegParams(pm, ps) ==
    LET new == UNION {Range(ps[i].params) : i \in DOMAIN ps}
    IN  [r \in DOMAIN pm \cup new |-> IF r \in new THEN 0 ELSE pm[r]]

\* The bookkeeping without the module's parameters and their optimizers.
DropOptimToParam(o2p, refs) ==
    [o \in {x \in DOMAIN o2p : Range(o2p[x]) \cap refs = {}} |-> o2p[o]]

DropOptimizers(os, o2p, refs) ==
    [o \in {x \in DOMAIN os : Range(o2p[x]) \cap refs = {}} |-> os[o]]

DropParams(pm, refs) == [r \in DOMAIN pm \ refs |-> pm[r]]

RemoveKey(keys, id) == SelectSeq(keys, LAMBDA k : k # id)

\* ------------------------------------------------------------------ Init
\* The module keys that module_class(**module_kwargs) creates: 1..n.
InitialKeys == {[i \in 1..n |-> i] : n \in 1..(MaxModules - 1)}

\* optimizer_config without "lr", and with an "lr" of 5e-4.
OptimizerConfigs == {Null, [k \in {"lr"} |-> 5]}

Init ==
    /\ distributed \in BOOLEAN
    /\ in_test \in BOOLEAN
    /\ enable_tf_function \in BOOLEAN
    /\ optimizer_config \in OptimizerConfigs
    /\ module_kwargs \in InitialKeys
    /\ built = FALSE
    /\ strategy = "none"
    /\ scopeDepth = 0
    /\ module = <<>>
    /\ params = Null
    /\ optim_to_param = Null
    /\ optimizers = Null
    /\ nextOptim = 1
    /\ update_fn = InitUpdateFn(enable_tf_function)
    /\ modVersion = 0
    /\ pc = "idle"
    /\ lastOp = "__init__"
    /\ outcome = "ok"
    /\ calls = <<>>
    /\ batch = {}
    /\ converted = FALSE
    /\ tape = "none"
    /\ fwd_out = {}
    /\ loss = Null
    /\ gradients = Null
    /\ hookReturned = Null
    /\ appliedArg = Null
    /\ applied = {}
    /\ update_outs = Null
    /\ results = Null
    /\ pairs = <<>>
    /\ nOps = 0

\* What every public method does first: forget the previous call.
ResetLocals ==
    /\ fwd_out' = {}
    /\ loss' = Null
    /\ gradients' = Null
    /\ hookReturned' = Null
    /\ appliedArg' = Null
    /\ applied' = {}
    /\ update_outs' = Null
    /\ results' = Null
    /\ tape' = "none"

NoBatch ==
    /\ batch' = {}
    /\ converted' = FALSE

\* The pairs a configure_optimizers call returned are held until the next
\* method call.
NoPairs == pairs' = <<>>

\* ---------------------------------------------------------- strategy scope
\* `with self.strategy.scope():` around a base-class call.  The context manager
\* is left when the body ends, also when the body raises.
ScopeEnter(depth) == depth + 1
\* Faulty variant: the scope is left only when the body returns.
ScopeExit_SkipOnRaise(depth, raised) == IF raised THEN depth ELSE depth - 1

ScopeExit(depth, raised) == depth - 1

\* The log of a base-class call `fn` made by a method of TfRLTrainer, and the
\* scope depth it leaves behind.
InScopeCalls(fn, depth) ==
    <<CallIn("strategy.scope.enter", depth),
      CallIn(fn, ScopeEnter(depth)),
      CallIn("strategy.scope.exit", ScopeEnter(depth))>>

BaseCalls(dist, fn, depth) ==
    IF dist THEN InScopeCalls(fn, depth) ELSE <<CallIn(fn, depth)>>

DepthAfter(dist, depth, raised) ==
    IF dist THEN ScopeExit(ScopeEnter(depth), raised) ELSE depth

\* ----------------------------------------------------------------- build
\* RLTrainer.build: the module is made by _make_distributed (lines 169-180)
\* when the trainer is distributed and by _make_module otherwise; then the
\* pairs of configure_optimizers are registered.
Build ==
    /\ pc = "idle"
    /\ ~built
    /\ LET ps == configure_optimizers(module_kwargs, optimizer_config, nextOptim)
       IN  /\ module' = module_kwargs
           /\ pairs' = ps
           /\ optim_to_param' = RegOptimToParam(optim_to_param, ps)
           /\ optimizers' = RegOptimizers(optimizers, ps)
           /\ params' = RegParams(params, ps)
           /\ nextOptim' = nextOptim + Len(ps)
    /\ strategy' = IF distributed THEN "MultiWorkerMirroredStrategy" ELSE strategy
    /\ calls' = BaseCalls(distributed, "_make_module", scopeDepth)
                  \o <<CallIn("configure_optimizers", DepthAfter(distributed, scopeDepth, FALSE))>>
    /\ scopeDepth' = DepthAfter(distributed, scopeDepth, FALSE)
    /\ built' = TRUE
    /\ lastOp' = "build"
    /\ outcome' = "ok"
    /\ ResetLocals
    /\ NoBatch
    /\ UNCHANGED <<cfgVars, update_fn, modVersion, pc, nOps>>

\* ------------------------------------------------------------- add_module
\* RLTrainer.add_module raises ValueError when neither set_optimizer_fn nor
\* optimizer_cls is given, or when the module id is already registered; it
\* changes nothing then.
BaseAddRaises(module_id, optimizer_cls) ==
    optimizer_cls = "None" \/ module_id \in Range(module)

BaseAddPairs(module_id, optimizer_cls) ==
    <<[params |-> get_parameters(module_id),
       optimizer |-> get_optimizer_obj(optimizer_config, optimizer_cls, nextOptim)]>>

add_module(module_id, optimizer_cls) ==
    /\ pc = "idle"
    /\ built
    /\ nOps < MaxOps
    /\ LET raised == BaseAddRaises(module_id, optimizer_cls)
           ps == BaseAddPairs(module_id, optimizer_cls)
       IN  /\ IF raised
              THEN UNCHANGED <<regVars, nextOptim>>
              ELSE /\ module' = Append(module, module_id)
                   /\ optim_to_param' = RegOptimToParam(optim_to_param, ps)
                   /\ optimizers' = RegOptimizers(optimizers, ps)
                   /\ params' = RegParams(params, ps)
                   /\ nextOptim' = nextOptim + 1
                   /\ modVersion' = modVersion + 1
           /\ scopeDepth' = DepthAfter(distributed, scopeDepth, raised)
           /\ update_fn' = IF raised THEN update_fn
                           ELSE Rewrap(enable_tf_function, update_fn)
           /\ calls' = BaseCalls(distributed, "super.add_module", scopeDepth)
                         \o (IF ~raised /\ enable_tf_function
                             THEN <<CallIn("tf.function", DepthAfter(distributed, scopeDepth, raised))>>
                             ELSE <<>>)
           /\ outcome' = IF raised THEN "ValueError" ELSE "ok"
    /\ lastOp' = "add_module"
    /\ nOps' = nOps + 1
    /\ ResetLocals
    /\ NoBatch
    /\ NoPairs
    /\ UNCHANGED <<cfgVars, built, strategy, pc>>

\* ---------------------------------------------------------- remove_module
\* RLTrainer.remove_module looks the module up (KeyError when it is not
\* registered), drops its parameters and their optimizers, then the module.
BaseRemoveRaises(module_id) == module_id \notin Range(module)

remove_module(module_id) ==
    /\ pc = "idle"
    /\ built
    /\ nOps < MaxOps
    /\ LET raised == BaseRemoveRaises(module_id)
           refs == Range(get_parameters(module_id))
       IN  /\ IF raised
              THEN UNCHANGED regVars
              ELSE /\ module' = RemoveKey(module, module_id)
                   /\ optim_to_param' = DropOptimToParam(optim_to_param, refs)
                   /\ optimizers' = DropOptimizers(optimizers, optim_to_param, refs)
                   /\ params' = DropParams(params, refs)
                   /\ modVersion' = modVersion + 1
           /\ scopeDepth' = DepthAfter(distributed, scopeDepth, raised)
           /\ update_fn' = IF raised THEN update_fn
                           ELSE Rewrap(enable_tf_function, update_fn)
           /\ calls' = BaseCalls(distributed, "super.remove_module", scopeDepth)
                         \o (IF ~raised /\ enable_tf_function
                             THEN <<CallIn("tf.function", DepthAfter(distributed, scopeDepth, raised))>>
                             ELSE <<>>)
           /\ outcome' = IF raised THEN "KeyError" ELSE "ok"
    /\ lastOp' = "remove_module"
    /\ nOps' = nOps + 1
    /\ ResetLocals
    /\ NoBatch
    /\ NoPairs
    /\ UNCHANGED <<cfgVars, built, strategy, nextOptim, pc>>

\* -------------------------------------------------- configure_optimizers()
\* A call of the public method: the pairs are returned, nothing is registered.
\* The optimizers made are new objects; they are dropped with the returned
\* list, so nextOptim does not move.
ConfigureOptimizersCall ==
    /\ pc = "idle"
    /\ built
    /\ nOps < MaxOps
    /\ pairs' = configure_optimizers(module, optimizer_config, nextOptim)
    /\ calls' = <<CallIn("configure_optimizers", scopeDepth)>>
    /\ lastOp' = "configure_optimizers"
    /\ outcome' = "ok"
    /\ nOps' = nOps + 1
    /\ ResetLocals
    /\ NoBatch
    /\ UNCHANGED <<cfgVars, built, strategy, scopeDepth, regVars, nextOptim, update_fn, pc>>

\* ------------------------------------------------------------------ update
\* Faulty variant: a batch for some of the modules only is let through.
KeysMatch_Subset(b, keys) == b \subseteq Range(keys)

\* Line 134: set(batch.policy_batches.keys()) != set(self._module.keys())
KeysMatch(b, keys) == b = Range(keys)

\* update, lines 133-139: the key check, then the conversion of the batch.
update(b) ==
    /\ pc = "idle"
    /\ built
    /\ nOps < MaxOps
    /\ lastOp' = "update"
    /\ nOps' = nOps + 1
    /\ batch' = b
    /\ ResetLocals
    /\ IF ~KeysMatch(b, module)
       THEN /\ outcome' = "ValueError"
            /\ calls' = <<>>
            /\ converted' = FALSE
            /\ pc' = "idle"
       ELSE /\ outcome' = "running"
            /\ calls' = <<CallIn("convert_batch_to_tf_tensor", scopeDepth)>>
            /\ converted' = TRUE
            /\ pc' = "dispatch"
    /\ NoPairs
    /\ UNCHANGED <<cfgVars, trainerVars>>

\* The first call of a tf.function wrapper traces the Python body: the trace
\* keeps the module keys, parameters and optimizers the body read.
Trace(fn) ==
    IF fn.traced /\ ~fn.made
    THEN [traced |-> TRUE, made |-> TRUE, version |-> modVersion, keys |-> module,
          plan |-> optim_to_param]
    ELSE fn

\* What the running update function sees of the trainer.
ViewKeys == IF update_fn.traced THEN update_fn.keys ELSE module
ViewPlan == IF update_fn.traced THEN update_fn.plan ELSE optim_to_param
PlanRefs(plan) == UNION {Range(plan[o]) : o \in DOMAIN plan}

\* Lines 140-143 and do_distributed_update, lines 249-252.
DispatchCalls(dist) ==
    IF dist THEN <<Call("do_distributed_update"), Call("strategy.run"), Call("_update_fn")>>
    ELSE <<Call("_update_fn")>>

Dispatch ==
    /\ pc = "dispatch"
    /\ calls' = calls \o DispatchCalls(distributed)
    /\ update_fn' = Trace(update_fn)
    /\ pc' = "tape_enter"
    /\ UNCHANGED <<cfgVars, built, strategy, scopeDepth, regVars, nextOptim>>
    /\ UNCHANGED <<lastOp, outcome, batch, converted, tape, localVars, results, pairs, nOps>>

\* Line 111: with tf.GradientTape() as tape
TapeEnter ==
    /\ pc = "tape_enter"
    /\ tape' = "recording"
    /\ pc' = "forward_train"
    /\ UNCHANGED <<cfgVars, trainerVars>>
    /\ UNCHANGED <<lastOp, outcome, calls, batch, converted, localVars, results, pairs, nOps>>

\* Line 112
ForwardTrain ==
    /\ pc = "forward_train"
    /\ fwd_out' = Range(ViewKeys)
    /\ calls' = calls \o <<Call("forward_train")>>
    /\ pc' = "compute_loss"
    /\ UNCHANGED <<cfgVars, trainerVars>>
    /\ UNCHANGED <<lastOp, outcome, batch, converted, tape, loss, gradients, hookReturned,
                   appliedArg, applied, update_outs, results, pairs, nOps>>

\* Lines 114-115: a bare tensor becomes {"total_loss": loss}.
NormalizeLoss(ret) ==
    IF ret.is_tensor THEN [k \in {TOTAL_LOSS_KEY} |-> ret.value] ELSE ret.value

\* What compute_loss of a subclass may return for the loss value v.
LossReturns(v) ==
    {[is_tensor |-> TRUE, value |-> v],
     [is_tensor |-> FALSE, value |-> [k \in {TOTAL_LOSS_KEY} |-> v]]}

\* Lines 113-115; compute_loss is the subclass's and may raise, which leaves
\* the with block and ends update.
ComputeLoss ==
    /\ pc = "compute_loss"
    /\ calls' = calls \o <<Call("compute_loss")>>
    /\ \E v \in LossValues, raises \in BOOLEAN :
         IF raises
         THEN /\ loss' = loss
              /\ tape' = "closed"
              /\ outcome' = "raised"
              /\ pc' = "idle"
         ELSE /\ \E ret \in LossReturns(v) : loss' = NormalizeLoss(ret)
              /\ tape' = tape
              /\ outcome' = outcome
              /\ pc' = "tape_exit"
    /\ UNCHANGED <<cfgVars, trainerVars>>
    /\ UNCHANGED <<lastOp, batch, converted, fwd_out, gradients, hookReturned,
                   appliedArg, applied, update_outs, results, pairs, nOps>>

\* End of the with block of line 111.
TapeExit ==
    /\ pc = "tape_exit"
    /\ tape' = "closed"
    /\ pc' = "compute_gradients"
    /\ UNCHANGED <<cfgVars, trainerVars>>
    /\ UNCHANGED <<lastOp, outcome, calls, batch, converted, localVars, results, pairs, nOps>>

\* compute_gradients, lines 151-155: tape.gradient(loss["total_loss"], self._params)
compute_gradients(l, refs) == [r \in refs |-> l[TOTAL_LOSS_KEY]]

\* Line 116
ComputeGradients ==
    /\ pc = "compute_gradients"
    /\ gradients' = compute_gradients(loss, PlanRefs(ViewPlan))
    /\ calls' = calls \o <<Call("compute_gradients")>>
    /\ pc' = "on_after_compute_gradients"
    /\ UNCHANGED <<cfgVars, trainerVars>>
    /\ UNCHANGED <<lastOp, outcome, batch, converted, tape, fwd_out, loss, hookReturned,
                   appliedArg, applied, update_outs, results, pairs, nOps>>

\* on_after_compute_gradients of the base class or of a subclass: the
\* gradients as they are, or clipped to 1.
Hooks == {"identity", "clip"}
on_after_compute_gradients(h, g) ==
    IF h = "clip" THEN [r \in DOMAIN g |-> IF g[r] > 1 THEN 1 ELSE g[r]] ELSE g

\* Faulty variant: the hook is called and what it returns is dropped.
OnAfterComputeGradients_Discard ==
    /\ pc = "on_after_compute_gradients"
    /\ \E h \in Hooks : hookReturned' = on_after_compute_gradients(h, gradients)
    /\ gradients' = gradients
    /\ calls' = calls \o <<Call("on_after_compute_gradients")>>
    /\ pc' = "apply_gradients"
    /\ UNCHANGED <<cfgVars, trainerVars>>
    /\ UNCHANGED <<lastOp, outcome, batch, converted, tape, fwd_out, loss,
                   appliedArg, applied, update_outs, results, pairs, nOps>>

\* Line 117: gradients = self.on_after_compute_gradients(gradients)
OnAfterComputeGradients ==
    /\ pc = "on_after_compute_gradients"
    /\ \E h \in Hooks :
         /\ hookReturned' = on_after_compute_gradients(h, gradients)
         /\ gradients' = hookReturned'
    /\ calls' = calls \o <<Call("on_after_compute_gradients")>>
    /\ pc' = "apply_gradients"
    /\ UNCHANGED <<cfgVars, trainerVars>>
    /\ UNCHANGED <<lastOp, outcome, batch, converted, tape, fwd_out, loss,
                   appliedArg, applied, update_outs, results, pairs, nOps>>

\* apply_gradients, lines 158-167: every optimizer applies the gradients of
\* its parameters.  `applied` is the set of parameters that received one (a
\* trace may still hold a variable that is no longer in self._params).
\* Faulty variant: the loop over the optimizers stops after the first one.
AppliedParams_FirstOnly(pm, plan) ==
    LET first == {o \in DOMAIN plan : \A x \in DOMAIN plan : o <= x}
    IN  [r \in DOMAIN pm |->
            IF \E o \in first : r \in Range(plan[o]) THEN pm[r] + 1 ELSE pm[r]]

AppliedParams(pm, plan) ==
    [r \in DOMAIN pm |-> IF r \in PlanRefs(plan) THEN pm[r] + 1 ELSE pm[r]]

AppliedOptimizers(os, plan) ==
    [o \in DOMAIN os |-> IF o \in DOMAIN plan
                         THEN [os[o] EXCEPT !.iterations = @ + 1] ELSE os[o]]

\* Line 118; gradients[param_ref] raises KeyError for a missing gradient.
ApplyGradients ==
    /\ pc = "apply_gradients"
    /\ appliedArg' = gradients
    /\ calls' = calls \o <<Call("apply_gradients")>>
    /\ IF PlanRefs(ViewPlan) \subseteq DOMAIN gradients
       THEN /\ params' = AppliedParams(params, ViewPlan)
            /\ optimizers' = AppliedOptimizers(optimizers, ViewPlan)
            /\ applied' = {r \in DOMAIN params : params'[r] # params[r]}
                             \cup (PlanRefs(ViewPlan) \ DOMAIN params)
            /\ outcome' = outcome
            /\ pc' = "return"
       ELSE /\ UNCHANGED <<params, optimizers, applied>>
            /\ outcome' = "KeyError"
            /\ pc' = "idle"
    /\ UNCHANGED <<cfgVars, built, strategy, scopeDepth, module, optim_to_param, modVersion,
                   nextOptim, update_fn>>
    /\ UNCHANGED <<lastOp, batch, converted, tape, fwd_out, loss, gradients, hookReturned,
                   update_outs, results, pairs, nOps>>

\* Line 119
Return ==
    /\ pc = "return"
    /\ update_outs' = [loss |-> loss, fwd_out |-> fwd_out,
                       post_processed_gradients |-> gradients]
    /\ pc' = "compile_results"
    /\ UNCHANGED <<cfgVars, trainerVars>>
    /\ UNCHANGED <<lastOp, outcome, calls, batch, converted, tape, fwd_out, loss, gradients,
                   hookReturned, appliedArg, applied, results, pairs, nOps>>

\* compile_results, lines 183-207.
\* Faulty variant: the weights are reported whether in_test or not.
ResultKeys_Always(test) == {"loss", "mean_gradient", "mean_weight"}

ResultKeys(test) == {"loss", "mean_gradient"} \cup (IF test THEN {"mean_weight"} ELSE {})

MeanWeights(keys, pm) == [m \in Range(keys) |-> pm[m]]

compile_results(test, keys, pm, l, g) ==
    [k \in ResultKeys(test) |->
        CASE k = "loss" -> l
          [] k = "mean_gradient" -> Mean(g)
          [] k = "mean_weight" -> MeanWeights(keys, pm)]

\* Lines 144-148
CompileResults ==
    /\ pc = "compile_results"
    /\ results' = compile_results(in_test, module, params, update_outs.loss,
                                  update_outs.post_processed_gradients)
    /\ calls' = calls \o <<Call("compile_results")>>
    /\ outcome' = "ok"
    /\ pc' = "idle"
    /\ UNCHANGED <<cfgVars, trainerVars>>
    /\ UNCHANGED <<lastOp, batch, converted, tape, localVars, pairs, nOps>>

\* -------------------------------------------------------------------- Next
OptimizerClasses == {"None", "Adam"}

Next ==
    \/ Build
    \/ \E b \in SUBSET ModuleIds : update(b)
    \/ Dispatch
    \/ TapeEnter
    \/ ForwardTrain
    \/ ComputeLoss
    \/ TapeExit
    \/ ComputeGradients
    \/ OnAfterComputeGradients
    \/ ApplyGradients
    \/ Return
    \/ CompileResults
    \/ \E id \in ModuleIds, cls \in OptimizerClasses : add_module(id, cls)
    \/ \E id \in ModuleIds : remove_module(id)
    \/ ConfigureOptimizersCall

Spec == Init /\ [][Next]_vars

\* ------------------------------------------------------------ properties
Called(fn) == \E i \in DOMAIN calls : calls[i].fn = fn

\* A method call starts in this step.
Starts(op) == pc = "idle" /\ lastOp' = op /\ nOps' = nOps + 1

\* C1.  An update whose batch keys are not exactly the module's keys ends at
\* once with ValueError: the batch is not converted and nothing was called.
C1_RejectedState ==
    (lastOp = "update" /\ batch # Range(module)) =>
        /\ outcome = "ValueError"
        /\ pc = "idle"
        /\ ~converted
        /\ calls = <<>>
        /\ applied = {}
        /\ results = Null

\* C1.  The step that starts such an update leaves the module, the parameters,
\* the optimizers and the update function as they were.
C1_RejectedStep ==
    (Starts("update") /\ batch' # Range(module)) =>
        /\ outcome' = "ValueError"
        /\ pc' = "idle"
        /\ UNCHANGED <<module, params, optim_to_param, optimizers, update_fn, modVersion,
                       scopeDepth, strategy>>

\* C1.  update raises ValueError whenever the batch keys differ from the module
\* keys (missing, extra or both), and then does nothing else: no conversion, no
\* forward pass, loss, gradients or apply_gradients, no change of optimizer or
\* parameter state.
C1_MismatchRaisesOnly == []C1_RejectedState /\ [][C1_RejectedStep]_vars

\* C1 witness: a trained trainer rejected a batch with a missing and an extra key.
C1_Witness ==
    /\ lastOp = "update"
    /\ outcome = "ValueError"
    /\ batch \ Range(module) # {}
    /\ Range(module) \ batch # {}
    /\ \E r \in DOMAIN params : params[r] > 0

\* The calls of one update cycle, with the state of the tape at each.
CycleFns == {"forward_train", "compute_loss", "compute_gradients",
             "on_after_compute_gradients", "apply_gradients", "compile_results"}

CycleOf(cs) ==
    LET c == SelectSeq(cs, LAMBDA e : e.fn \in CycleFns)
    IN  [i \in DOMAIN c |-> <<c[i].fn, c[i].tape>>]

ExpectedCycle ==
    << <<"forward_train", "recording">>,
       <<"compute_loss", "recording">>,
       <<"compute_gradients", "closed">>,
       <<"on_after_compute_gradients", "closed">>,
       <<"apply_gradients", "closed">>,
       <<"compile_results", "closed">> >>

IsPrefix(a, b) == Len(a) <= Len(b) /\ \A i \in DOMAIN a : a[i] = b[i]

\* C2.  A successful update made exactly the calls forward_train, compute_loss
\* (tape recording), compute_gradients, on_after_compute_gradients,
\* apply_gradients, compile_results (tape closed), once each and in this
\* order; an update in progress has made a prefix of them; and apply_gradients
\* received what on_after_compute_gradients returned.
C2_FixedCycleOrder ==
    /\ lastOp = "update" => IsPrefix(CycleOf(calls), ExpectedCycle)
    /\ (lastOp = "update" /\ outcome = "ok") =>
            /\ CycleOf(calls) = ExpectedCycle
            /\ appliedArg = hookReturned
            /\ update_outs.post_processed_gradients = hookReturned
    /\ Called("apply_gradients") => appliedArg = hookReturned

\* C2 witness: a finished update whose hook changed the gradients.
C2_Witness ==
    /\ lastOp = "update"
    /\ outcome = "ok"
    /\ \E r \in DOMAIN hookReturned : hookReturned[r] # loss[TOTAL_LOSS_KEY]
    /\ CycleOf(calls) = ExpectedCycle

\* C3.  A finished update trained exactly the modules registered when it ran:
\* its batch, its forward pass and the parameters that received gradients are
\* those of the current module keys; a batch keyed by the current keys is not
\* rejected and any other batch is.
C3_UpdateState ==
    /\ (lastOp = "update" /\ outcome = "ok") =>
            /\ batch = Range(module)
            /\ fwd_out = Range(module)
            /\ applied = Range(module)
            /\ DOMAIN params = Range(module)
    /\ lastOp = "update" => (outcome = "ValueError" <=> batch # Range(module))

\* C3.  A successful add_module adds exactly the new key, a successful
\* remove_module removes exactly the given key (so the key set from before is
\* no longer the current one), and apply_gradients trains every registered
\* module once.
C3_Step ==
    /\ (Starts("add_module") /\ outcome' = "ok") =>
            \E id \in ModuleIds \ Range(module) : module' = Append(module, id)
    /\ (Starts("remove_module") /\ outcome' = "ok") =>
            \E id \in Range(module) :
                /\ Range(module') = Range(module) \ {id}
                /\ Len(module') = Len(module) - 1
    /\ (pc = "apply_gradients" /\ pc' = "return") =>
            \A m \in Range(module) : params'[m] = params[m] + 1

C4_WrapperMatchesFlag ==
    /\ update_fn.traced <=> enable_tf_function
    /\ ~enable_tf_function => update_fn = DoUpdateFn
    /\ (enable_tf_function /\ lastOp \in {"add_module", "remove_module"} /\ outcome = "ok")
            => update_fn = TfFunction
    /\ update_fn.made =>
            /\ update_fn.version = modVersion
            /\ update_fn.keys = module
            /\ update_fn.plan = optim_to_param
    /\ (lastOp = "update" /\ Called("_update_fn") /\ enable_tf_function) => update_fn.made

\* C4 witness: an update ran a trace made after two changes of the module set.
C4_Witness ==
    /\ enable_tf_function
    /\ lastOp = "update"
    /\ outcome = "ok"
    /\ update_fn.made
    /\ update_fn.version >= 2

\* The calls made inside a strategy scope by build, add_module, remove_module.
BaseFns == {"_make_module", "super.add_module", "super.remove_module"}
StrategyFns == {"strategy.scope.enter", "strategy.scope.exit", "strategy.run",
                "do_distributed_update"}

\* C5.  The update function is reached through strategy.run exactly when the
\* trainer is distributed.  A distributed trainer makes every base-class call
\* (module creation, add_module, remove_module) between entering and leaving
\* the strategy scope, and no scope is left entered when the method ends,
\* whether it returned or raised.  A trainer that is not distributed has no
\* strategy, enters no scope and calls nothing of a strategy.
C5_StrategyIffDistributed ==
    /\ scopeDepth = 0
    /\ Called("_update_fn") => (Called("strategy.run") <=> distributed)
    /\ Called("strategy.run") =>
            \E i \in DOMAIN calls : /\ i + 1 \in DOMAIN calls
                                    /\ calls[i].fn = "strategy.run"
                                    /\ calls[i + 1].fn = "_update_fn"
    /\ ~distributed =>
            /\ strategy = "none"
            /\ \A i \in DOMAIN calls : calls[i].scope = 0 /\ calls[i].fn \notin StrategyFns
    /\ distributed =>
            /\ built => strategy = "MultiWorkerMirroredStrategy"
            /\ \A i \in DOMAIN calls :
                  calls[i].fn \in BaseFns =>
                      /\ calls[i].scope = 1
                      /\ i > 1 /\ calls[i - 1].fn = "strategy.scope.enter"
                      /\ i < Len(calls) /\ calls[i + 1].fn = "strategy.scope.exit"
            /\ \A i \in DOMAIN calls :
                  calls[i].fn \notin BaseFns \cup {"strategy.scope.exit"} => calls[i].scope = 0

\* C5 witness: in a distributed trainer add_module raised inside the scope.
C5_Witness ==
    /\ distributed
    /\ lastOp = "add_module"
    /\ outcome = "ValueError"
    /\ \E i \in DOMAIN calls : calls[i].fn = "super.add_module" /\ calls[i].scope = 1
    /\ scopeDepth = 0

\* C6.  The result of a successful update has the keys "loss" and
\* "mean_gradient"; it has "mean_weight" exactly when in_test is set, and then
\* with one entry per registered module id.
C6_ResultKeys ==
    (lastOp = "update" /\ outcome = "ok") =>
        /\ {"loss", "mean_gradient"} \subseteq DOMAIN results
        /\ DOMAIN results \subseteq {"loss", "mean_gradient", "mean_weight"}
        /\ "mean_weight" \in DOMAIN results <=> in_test
        /\ in_test => DOMAIN results["mean_weight"] = Range(module)

\* C6 witness: a test trainer reported the weights of a module added later.
C6_Witness ==
    /\ in_test
    /\ lastOp = "update"
    /\ outcome = "ok"
    /\ "mean_weight" \in DOMAIN results
    /\ \E m \in DOMAIN results["mean_weight"] : m \notin Range(module_kwargs)

\* C7.  configure_optimizers returned one pair per module key, in the order of
\* the keys, each with the module's trainable variables and an Adam optimizer
\* of its own that was made by this call, with learning rate
\* optimizer_config["lr"], or 1e-3 (10 units of 1e-4) without an "lr".
C7_PerModuleOptimizers ==
    lastOp \in {"build", "configure_optimizers"} =>
        /\ Len(pairs) = Len(module)
        /\ \A i \in DOMAIN pairs :
              /\ pairs[i].params = get_parameters(module[i])
              /\ pairs[i].optimizer.cls = "Adam"
              /\ pairs[i].optimizer.iterations = 0
              /\ pairs[i].optimizer.lr =
                    (IF "lr" \in DOMAIN optimizer_config THEN optimizer_config["lr"] ELSE 10)
        /\ \A i, j \in DOMAIN pairs : i # j => pairs[i].optimizer.id # pairs[j].optimizer.id
        /\ lastOp = "configure_optimizers" =>
              \A i \in DOMAIN pairs : pairs[i].optimizer.id \notin DOMAIN optimizers

\* C7 witness: a call without an "lr", for a module set that was changed,
\* returned pairs for several modules.
C7_Witness ==
    /\ lastOp = "configure_optimizers"
    /\ "lr" \notin DOMAIN optimizer_config
    /\ modVersion >= 1
    /\ Len(pairs) >= 2

====
